---------------------------- MODULE Spec2Model ----------------------------
(***************************************************************************)
(* Model of the campaign-reporting checker script (src/check_json.py) and   *)
(* its prompt templates (src/prompts.py).                                   *)
(*                                                                          *)
(* Strings are sequences of one-character strings.  Indices of the Python   *)
(* code are 0-based; element i of a Python string s is s[i + 1] here.       *)
(***************************************************************************)
EXTENDS Integers, Sequences, FiniteSets, TLC

\* ------------------------------------------------------------------------
\* Bounds of the model
\* ------------------------------------------------------------------------

\* Longest string compared in the similarity specification.
MaxLen == 3

\* Number of briefing spreadsheets in reports/briefing.
MaxBriefings == 2

\* Number of structured records in reports/jsons.
MaxJsons == 1

\* Number of .json files the examples directory (reports/Shots) may hold.
MaxShotJsons == 3

\* ------------------------------------------------------------------------
\* Small helpers
\* ------------------------------------------------------------------------

Min2(x, y) == IF x <= y THEN x ELSE y

Max2(x, y) == IF x >= y THEN x ELSE y

SetMax(S) == CHOOSE x \in S : \A y \in S : y <= x

SetMin(S) == CHOOSE x \in S : \A y \in S : x <= y

\* All sequences over S of length at most n.
SeqsUpTo(S, n) == UNION {[1..k -> S] : k \in 0..n}

\* All orderings (sequences without repetition) of the finite set S.
Orderings(S) == {s \in [1..Cardinality(S) -> S] : \A i, j \in DOMAIN s : s[i] = s[j] => i = j}

\* ------------------------------------------------------------------------
\* Python string operations used by the script
\* ------------------------------------------------------------------------

Whitespace == {" ", "\n", "\t"}

\* s[start:end] with Python's treatment of negative and out-of-range indices.
PySlice(s, start, end) ==
  LET n  == Len(s)
      lo == IF start < 0 THEN Max2(n + start, 0) ELSE Min2(start, n)
      hi == IF end < 0 THEN Max2(n + end, 0) ELSE Min2(end, n)
  IN IF hi <= lo THEN << >> ELSE [k \in 1..(hi - lo) |-> s[lo + k]]

\* Whether sub occurs in s at 0-based index i.
OccursAt(s, sub, i) ==
  /\ i >= 0
  /\ i + Len(sub) <= Len(s)
  /\ \A d \in 1..Len(sub) : s[i + d] = sub[d]

\* s.find(sub, start): lowest index >= start where sub occurs, or -1.
PyFind(s, sub, start) ==
  LET hits == {i \in start..Len(s) : OccursAt(s, sub, i)}
  IN IF hits = {} THEN -1 ELSE SetMin(hits)

\* s.strip(chars) for a set of characters.
PyStripChars(s, chars) ==
  LET keep == {i \in 1..Len(s) : s[i] \notin chars}
  IN IF keep = {} THEN << >> ELSE PySlice(s, SetMin(keep) - 1, SetMax(keep))

\* s.strip()
PyStrip(s) == PyStripChars(s, Whitespace)

\* s.replace(old, new): non-overlapping occurrences, left to right (old # "").
RECURSIVE PyReplace(_, _, _)
PyReplace(s, old, new) ==
  IF Len(s) = 0 THEN << >>
  ELSE IF OccursAt(s, old, 0)
       THEN new \o PyReplace(PySlice(s, Len(old), Len(s)), old, new)
       ELSE <<s[1]>> \o PyReplace(PySlice(s, 1, Len(s)), old, new)

\* Decimal digits of a natural number, as str(n) prints them.
Digit(d) == CASE d = 0 -> "0" [] d = 1 -> "1" [] d = 2 -> "2" [] d = 3 -> "3"
              [] d = 4 -> "4" [] d = 5 -> "5" [] d = 6 -> "6" [] d = 7 -> "7"
              [] d = 8 -> "8" [] OTHER -> "9"

RECURSIVE NatToStr(_)
NatToStr(n) == IF n < 10 THEN <<Digit(n)>> ELSE NatToStr(n \div 10) \o <<Digit(n % 10)>>

\* ------------------------------------------------------------------------
\* difflib.SequenceMatcher(None, a, b).ratio(), as the matcher calls it.
\* No junk function is given and every modelled string is shorter than the
\* 200 characters at which the automatic junk heuristic starts.
\* ------------------------------------------------------------------------

\* Length of the common run of a and b starting at 0-based (i, j), inside
\* a[i:ahi] and b[j:bhi].
RECURSIVE RunLen(_, _, _, _, _, _)
RunLen(a, b, i, j, ahi, bhi) ==
  IF i < ahi /\ j < bhi /\ a[i + 1] = b[j + 1]
  THEN 1 + RunLen(a, b, i + 1, j + 1, ahi, bhi)
  ELSE 0

\* The longest matching block in a[alo:ahi], b[blo:bhi]: of all maximal
\* blocks the one starting earliest in a, and of those earliest in b.
find_longest_match(a, b, alo, ahi, blo, bhi) ==
  LET lens == [i \in alo..(ahi - 1) |-> [j \in blo..(bhi - 1) |-> RunLen(a, b, i, j, ahi, bhi)]]
      best == SetMax({0} \cup {lens[i][j] : i \in alo..(ahi - 1), j \in blo..(bhi - 1)})
  IN IF best = 0 THEN [i |-> alo, j |-> blo, size |-> 0]
     ELSE LET besti == SetMin({i \in alo..(ahi - 1) : \E j \in blo..(bhi - 1) : lens[i][j] = best})
              bestj == SetMin({j \in blo..(bhi - 1) : lens[besti][j] = best})
          IN [i |-> besti, j |-> bestj, size |-> best]

\* Total size of the matching blocks found by get_matching_blocks: the
\* longest block, then recursively the pieces to its left and to its right.
RECURSIVE matched_chars(_, _, _, _, _, _)
matched_chars(a, b, alo, ahi, blo, bhi) ==
  LET m == find_longest_match(a, b, alo, ahi, blo, bhi)
  IN IF m.size = 0 THEN 0
     ELSE m.size
          + (IF alo < m.i /\ blo < m.j
             THEN matched_chars(a, b, alo, m.i, blo, m.j) ELSE 0)
          + (IF m.i + m.size < ahi /\ m.j + m.size < bhi
             THEN matched_chars(a, b, m.i + m.size, ahi, m.j + m.size, bhi) ELSE 0)

\* Occurrences of the character c in s.
CountOf(s, c) == Cardinality({i \in 1..Len(s) : s[i] = c})

\* quick_ratio(): the upper bound that counts common characters whatever
\* their order.  Calling it where ratio() is meant is a different metric.
quick_ratio(a, b) ==
  LET T == Len(a) + Len(b)
      chars == {a[i] : i \in 1..Len(a)}
      common[S \in SUBSET chars] ==
        IF S = {} THEN 0
        ELSE LET c == CHOOSE x \in S : TRUE
             IN Min2(CountOf(a, c), CountOf(b, c)) + common[S \ {c}]
  IN IF T = 0 THEN [num |-> 1, den |-> 1]
     ELSE [num |-> 2 * common[chars], den |-> T]

\* ratio() = 2.0 * matches / (len(a) + len(b)), and 1.0 for two empty
\* strings, kept as the exact fraction num / den.
ratio(a, b) ==
  LET T == Len(a) + Len(b)
  IN IF T = 0 THEN [num |-> 1, den |-> 1]
     ELSE [num |-> 2 * matched_chars(a, b, 0, Len(a), 0, Len(b)), den |-> T]

\* r >= pct / 100, exactly.
RatioAtLeast(r, pct) == 100 * r.num >= pct * r.den


\* ------------------------------------------------------------------------
\* Description extraction
\* ------------------------------------------------------------------------

\* The value the script stores when a description is not a string.
Sentinel == <<"I", "n", "v", "a", "l", "i", "d", " ", "d", "e", "s", "c", "r", "i", "p", "t", "i", "o", "n">>

\* A spreadsheet's designated cell (column "Unnamed: 7", row 5) as pandas
\* returns it: a string, a number, an empty cell (NaN), or no such cell.
StrCell(s) == [kind |-> "str", s |-> s, n |-> 0]

NumCell(n) == [kind |-> "num", s |-> << >>, n |-> n]

NanCell == [kind |-> "nan", s |-> << >>, n |-> 0]

AbsentCell == [kind |-> "absent", s |-> << >>, n |-> 0]

\* str(cell): the script converts the cell before it tests its type.
CellStr(cell) ==
  CASE cell.kind = "str" -> cell.s
    [] cell.kind = "num" -> NatToStr(cell.n)
    [] OTHER -> <<"n", "a", "n">>

\* isinstance(action_name, str) applied to the converted value.
IsStr(action_name) == TRUE

\* The body of the briefing loop for one cell that exists.
ExcelDescription(action_name) ==
  IF IsStr(action_name)
  THEN LET start == PyFind(action_name, <<")", " ">>, 0) + 1
       IN PyReplace(PyReplace(PyStrip(PySlice(action_name, start, Len(action_name))),
                              <<"/">>, << >>),
                    <<" ", " ">>, <<" ">>)
  ELSE Sentinel

\* The description scanned out of a structured record's text.
JsonDescription(json_string) ==
  LET start == PyFind(json_string, <<")", " ">>, 0) + 2
      end   == PyFind(json_string, <<"\"", ",">>, start) - 5
  IN PyStripChars(PyStrip(PySlice(json_string, start, end)), {"\""})


\* ------------------------------------------------------------------------
\* Similarity matcher
\* ------------------------------------------------------------------------

\* The default threshold of match_descriptions, in hundredths.
DefaultThreshold == 93

\* A test that drops the pairs sitting exactly on the threshold.
QualifiesStrictly(similarity, threshold) == 100 * similarity.num > threshold * similarity.den

\* The test that admits a pair.
Qualifies(similarity, threshold) == RatioAtLeast(similarity, threshold)

\* match_descriptions(json_dict, excel_dict, threshold): the whole cross
\* product is scanned and every pair that passes the test is added.
match_descriptions(json_dict, excel_dict, threshold) ==
  {<<json_file, excel_file, json_dict[json_file], excel_dict[excel_file]>> :
     <<json_file, excel_file>> \in
       {p \in (DOMAIN json_dict) \X (DOMAIN excel_dict) :
          Qualifies(ratio(json_dict[p[1]], excel_dict[p[2]]), threshold)}}

\* ------------------------------------------------------------------------
\* Files, documents and conversations
\* ------------------------------------------------------------------------

BriefingFiles == 1..MaxBriefings

JsonFiles == 1..MaxJsons

\* Contents are opaque to the script: it only embeds them in prompts.
None == [kind |-> "None", n |-> 0]

\* json.load of Shots/example_json_1.json.
ExampleJson1Parsed == [kind |-> "shot_json_parsed", n |-> 1]

\* The text of Shots/example_json_<n>.json.
ShotJsonText(n) == [kind |-> "shot_json_text", n |-> n]

\* pd.read_excel(...).to_string() of Shots/example_brf_<n>.xlsx.
ShotBriefingText(n) == [kind |-> "shot_brf_text", n |-> n]

\* pd.read_excel(...).to_string() of briefing file n.
BriefingText(n) == [kind |-> "briefing_text", n |-> n]

\* The text of structured record n.
JsonText(n) == [kind |-> "json_text", n |-> n]

\* The text the completion service returns to the n-th call of the run.
Response(n) == [kind |-> "response", n |-> n]

model_id == "anthropic.claude-3-5-sonnet-20240620-v1:0"

\* A template of src/prompts.py (or the conversion instruction) with its
\* placeholders filled.
Format(tpl, args) == [tpl |-> tpl, args |-> args]

\* transform_string_to_prompt(text, role): a one-turn conversation.
transform_string_to_prompt(text, role) == <<[role |-> role, text |-> text]>>

ExampleTpl(k) ==
  CASE k = 1 -> "first_example" [] k = 2 -> "second_example" [] OTHER -> "third_example"

ExpectedTpl(k) ==
  CASE k = 1 -> "expected_response_1" [] k = 2 -> "expected_response_2"
    [] OTHER -> "expected_response_3"

\* The turns of worked example k.
ExampleTurns(k, jsons_list, briefings_list) ==
  transform_string_to_prompt(Format(ExampleTpl(k), <<jsons_list[k], briefings_list[k]>>), "user")
    \o transform_string_to_prompt(Format(ExpectedTpl(k), << >>), "assistant")

\* An assembly that adds each expected response before its request.
RECURSIVE BuildPromptResponseFirst(_, _, _)
BuildPromptResponseFirst(jsons_list, briefings_list, n) ==
  IF n = 0 THEN transform_string_to_prompt(Format("rules", << >>), "user")
  ELSE BuildPromptResponseFirst(jsons_list, briefings_list, n - 1)
         \o transform_string_to_prompt(Format(ExpectedTpl(n), << >>), "assistant")
         \o transform_string_to_prompt(
              Format(ExampleTpl(n), <<jsons_list[n], briefings_list[n]>>), "user")

\* claude_prompt after the rules block and the first n worked examples.
RECURSIVE BuildPrompt(_, _, _)
BuildPrompt(jsons_list, briefings_list, n) ==
  IF n = 0 THEN transform_string_to_prompt(Format("rules", << >>), "user")
  ELSE BuildPrompt(jsons_list, briefings_list, n - 1)
         \o ExampleTurns(n, jsons_list, briefings_list)

\* The conversation process_excel_content sends.
ConversionMessages(excel_content, content) ==
  transform_string_to_prompt(Format("process_excel", <<excel_content, content>>), "user")

\* prompt.extend(...) in compare_json_excel: the list handed in is the
\* list that grows.
ExtendedPrompt(prompt, briefing, json_content) ==
  prompt \o transform_string_to_prompt(Format("new_request", <<briefing, json_content>>), "user")

\* A loader without the memo test.
NeedsLoadAlways(content) == TRUE

\* load_example_json reads the file only while the global is None.
NeedsLoad(content) == content = None

\* An error handler that prints and carries on.
AfterCallCarryOn(ok, next) == next

\* Where the run goes after a completion-service call: on to next, or out
\* through exit(1).
AfterCall(ok, next) == IF ok THEN next ELSE "exited"

\* An iterator that yields a pair without consuming it.
RestAfterKeeping(rem, m) == rem

\* The iterator of "for match in matches" after it has yielded m.
RestAfter(rem, m) == rem \ {m}

ErrorLine == [tag |-> "ERROR", model |-> model_id, json |-> 0, excel |-> 0, text |-> None]

CheckLine(m, discrepancies) ==
  [tag |-> "CHECK", model |-> "", json |-> m[1], excel |-> m[2], text |-> discrepancies]

\* ------------------------------------------------------------------------
\* Inputs
\* ------------------------------------------------------------------------

\* "1) ab"
CellAb == <<"1", ")", " ", "a", "b">>

\* Values of the designated cell of a briefing.
Cells == {StrCell(CellAb), StrCell(Sentinel), NumCell(7), NanCell, AbsentCell}

\* "1) ab 2024",
JsonAb == <<"\"", "1", ")", " ", "a", "b", " ", "2", "0", "2", "4", "\"", ",">>

\* "1) Invalid description 2024",
JsonInvalid == <<"\"", "1", ")", " ", "I", "n", "v", "a", "l", "i", "d", " ", "d", "e", "s", "c", "r", "i", "p", "t", "i", "o", "n", " ", "2", "0", "2", "4", "\"", ",">>

\* Texts of the structured records.
JsonTexts == {JsonAb, JsonInvalid}

\* Listings os.listdir may return for the .json files of the examples
\* directory: any order of any set of files that holds example_json_1.json.
ShotListings ==
  UNION {Orderings(S) : S \in {T \in SUBSET (1..MaxShotJsons) : 1 \in T}}

\* Thresholds the matcher is tried at, in hundredths.
Thresholds == {0, 50, 93, 100}

\* Strings the similarity is tried on.
SimStrings == SeqsUpTo({"a", "b", "c"}, MaxLen)

\* "Envio de SMS"
EnvioSms == <<"E", "n", "v", "i", "o", " ", "d", "e", " ", "S", "M", "S">>

\* "Envio de SMS " (a trailing space)
EnvioSmsSpace == <<"E", "n", "v", "i", "o", " ", "d", "e", " ", "S", "M", "S", " ">>

\* Descriptions the matcher is tried on.
MatchDescs == {<<"a", "b">>, <<"b", "a">>, << >>, Sentinel, EnvioSms, EnvioSmsSpace}


\* ------------------------------------------------------------------------
\* State
\* ------------------------------------------------------------------------

VARIABLES
  pc,                    \* position in the script
  cells,                 \* briefing file -> its designated cell (on disk)
  json_texts,            \* structured record -> its text (on disk)
  shots_listing,         \* os.listdir order of the examples' .json files
  excels_descriptions,   \* briefing file -> description
  json_descriptions,     \* structured record -> description
  threshold,             \* threshold handed to match_descriptions
  matches,               \* set of matched 4-tuples
  example_json_content,  \* the memoized worked-example document
  loads,                 \* how often example_json_1.json was read
  example_jsons_list,    \* texts of the examples' .json files, in listing order
  example_excels,        \* converted example briefings, by brf_n + 1
  claude_prompt,         \* the shared few-shot conversation
  calls,                 \* completion-service calls issued so far
  output,                \* error and report lines printed so far
  remaining,             \* matched pairs the final loop has not yet yielded
  match,                 \* the pair the final loop is at
  clean_briefing,        \* the converted briefing of that pair
  sim_a, sim_b,          \* two strings
  sim_ab, sim_ba         \* their similarity, both ways round

vars == <<pc, cells, json_texts, shots_listing, excels_descriptions, json_descriptions,
          threshold, matches, example_json_content, loads, example_jsons_list,
          example_excels, claude_prompt, calls, output, remaining, match,
          clean_briefing, sim_a, sim_b, sim_ab, sim_ba>>

diskVars == <<cells, json_texts, shots_listing>>

simVars == <<sim_a, sim_b, sim_ab, sim_ba>>

gatherVars == <<excels_descriptions, json_descriptions, threshold, matches>>

exampleVars == <<example_jsons_list, example_excels, claude_prompt>>

loopVars == <<remaining, match, clean_briefing>>

serviceVars == <<example_json_content, loads, calls, output>>

NoRatio == [num |-> 0, den |-> 1]

\* The state of the script's globals before its first statement runs.
Fresh ==
  /\ excels_descriptions = << >>
  /\ json_descriptions = << >>
  /\ threshold = DefaultThreshold
  /\ matches = {}
  /\ example_json_content = None
  /\ loads = 0
  /\ example_jsons_list = << >>
  /\ example_excels = << >>
  /\ claude_prompt = << >>
  /\ calls = << >>
  /\ output = << >>
  /\ remaining = {}
  /\ match = << >>
  /\ clean_briefing = None

Init ==
  /\ pc = "gather_briefings"
  /\ cells \in [BriefingFiles -> Cells]
  /\ json_texts \in [JsonFiles -> JsonTexts]
  /\ shots_listing \in ShotListings
  /\ Fresh
  /\ sim_a = << >> /\ sim_b = << >> /\ sim_ab = NoRatio /\ sim_ba = NoRatio

\* d[k] = v added to the dict d.
DictSet(d, k, v) == [x \in (DOMAIN d) \cup {k} |-> IF x = k THEN v ELSE d[x]]

\* ------------------------------------------------------------------------
\* The script, statement by statement
\* ------------------------------------------------------------------------

\* One iteration of the briefing loop: the next file of the directory is
\* read; a sheet without the designated cell raises (KeyError, IndexError).
GatherBriefing ==
  /\ pc = "gather_briefings"
  /\ \E excel_file \in BriefingFiles \ DOMAIN excels_descriptions :
       IF cells[excel_file].kind = "absent"
       THEN /\ pc' = "raised_in_briefings"
            /\ UNCHANGED excels_descriptions
       ELSE /\ excels_descriptions' =
                 DictSet(excels_descriptions, excel_file,
                         ExcelDescription(CellStr(cells[excel_file])))
            /\ pc' = IF DOMAIN excels_descriptions' = BriefingFiles
                     THEN "gather_jsons" ELSE "gather_briefings"
  /\ UNCHANGED <<diskVars, json_descriptions, threshold, matches, exampleVars,
                 loopVars, serviceVars, simVars>>

\* The structured-record loop: it cannot raise.
GatherJsons ==
  /\ pc = "gather_jsons"
  /\ json_descriptions' = [json_file \in JsonFiles |-> JsonDescription(json_texts[json_file])]
  /\ pc' = "match"
  /\ UNCHANGED <<diskVars, excels_descriptions, threshold, matches, exampleVars,
                 loopVars, serviceVars, simVars>>

\* matches = match_descriptions(json_descriptions, excels_descriptions)
Match ==
  /\ pc = "match"
  /\ threshold' = DefaultThreshold
  /\ matches' = match_descriptions(json_descriptions, excels_descriptions, DefaultThreshold)
  /\ pc' = "load_shots"
  /\ UNCHANGED <<diskVars, excels_descriptions, json_descriptions, exampleVars,
                 loopVars, serviceVars, simVars>>

\* example_jsons is filled in listing order; its values, in that order,
\* become example_jsons_list.
LoadExampleJsons ==
  /\ pc = "load_shots"
  /\ example_jsons_list' = [i \in 1..Len(shots_listing) |-> ShotJsonText(shots_listing[i])]
  /\ pc' = "convert_examples"
  /\ UNCHANGED <<diskVars, gatherVars, example_excels, claude_prompt, loopVars,
                 serviceVars, simVars>>

\* process_excel_content(excel_content): load the worked example if it is
\* not loaded, send one user turn, and return the answer or exit.
ProcessExcelContent(excel_content, ok, next) ==
  /\ example_json_content' =
       IF NeedsLoad(example_json_content) THEN ExampleJson1Parsed ELSE example_json_content
  /\ loads' = IF NeedsLoad(example_json_content) THEN loads + 1 ELSE loads
  /\ calls' = Append(calls, [kind |-> "conversion",
                             messages |-> ConversionMessages(excel_content, example_json_content'),
                             ok |-> ok])
  /\ output' = IF ok THEN output ELSE Append(output, ErrorLine)
  /\ pc' = AfterCall(ok, next)

\* One iteration of "for brf_n in [0,1,2]".
ConvertExample ==
  /\ pc = "convert_examples"
  /\ \E ok \in BOOLEAN :
       LET brf_n == Len(example_excels)
       IN /\ ProcessExcelContent(ShotBriefingText(brf_n + 1), ok,
                                 IF brf_n = 2 THEN "assemble" ELSE "convert_examples")
          /\ example_excels' = IF ok THEN Append(example_excels, Response(Len(calls) + 1))
                               ELSE example_excels
  /\ UNCHANGED <<diskVars, gatherVars, example_jsons_list, claude_prompt, loopVars, simVars>>

\* The assembly of claude_prompt; example_jsons_list[k] raises IndexError
\* when the listing held fewer than k + 1 files, after the turns before it
\* were added.  The final loop starts over the set of matches.
AssemblePrompt ==
  /\ pc = "assemble"
  /\ LET n == Min2(3, Len(example_jsons_list))
     IN /\ claude_prompt' = BuildPrompt(example_jsons_list, example_excels, n)
        /\ pc' = IF n = 3 THEN "loop" ELSE "raised_in_assembly"
        /\ remaining' = IF n = 3 THEN matches ELSE remaining
  /\ UNCHANGED <<diskVars, gatherVars, example_jsons_list, example_excels, match,
                 clean_briefing, serviceVars, simVars>>

\* The final loop yields a pair and converts its briefing.
ConvertMatch ==
  /\ pc = "loop"
  /\ \E m \in remaining, ok \in BOOLEAN :
       /\ match' = m
       /\ remaining' = RestAfter(remaining, m)
       /\ ProcessExcelContent(BriefingText(m[2]), ok, "compare")
       /\ clean_briefing' = IF ok THEN Response(Len(calls) + 1) ELSE clean_briefing
  /\ UNCHANGED <<diskVars, gatherVars, exampleVars, simVars>>

\* compare_json_excel(clean_briefing, match[0], prompt = claude_prompt, ...)
\* and the report of its answer.
CompareMatch ==
  /\ pc = "compare"
  /\ \E ok \in BOOLEAN :
       /\ claude_prompt' = ExtendedPrompt(claude_prompt, clean_briefing, JsonText(match[1]))
       /\ calls' = Append(calls, [kind |-> "comparison", messages |-> claude_prompt', ok |-> ok])
       /\ output' = IF ok THEN Append(output, CheckLine(match, Response(Len(calls) + 1)))
                    ELSE Append(output, ErrorLine)
       /\ pc' = AfterCall(ok, "loop")
  /\ UNCHANGED <<diskVars, gatherVars, example_jsons_list, example_excels, loopVars,
                 example_json_content, loads, simVars>>

\* The final loop is exhausted and the script ends.
Finish ==
  /\ pc = "loop"
  /\ remaining = {}
  /\ pc' = "done"
  /\ UNCHANGED <<diskVars, gatherVars, exampleVars, loopVars, serviceVars, simVars>>

Next ==
  \/ GatherBriefing
  \/ GatherJsons
  \/ Match
  \/ LoadExampleJsons
  \/ ConvertExample
  \/ AssemblePrompt
  \/ ConvertMatch
  \/ CompareMatch
  \/ Finish

Spec == Init /\ [][Next]_vars

\* ------------------------------------------------------------------------
\* The matcher on its own, over any two mappings and thresholds
\* ------------------------------------------------------------------------

InitMatch ==
  /\ pc = "match_input"
  /\ cells = << >> /\ json_texts = << >> /\ shots_listing = << >>
  /\ Fresh
  /\ sim_a = << >> /\ sim_b = << >> /\ sim_ab = NoRatio /\ sim_ba = NoRatio

\* Two mappings are given.
GiveMappings ==
  /\ pc = "match_input"
  /\ json_descriptions' \in [JsonFiles -> MatchDescs]
  /\ excels_descriptions' \in [BriefingFiles -> MatchDescs]
  /\ pc' = "match_call"
  /\ UNCHANGED <<diskVars, threshold, matches, exampleVars, loopVars, serviceVars, simVars>>

\* match_descriptions(json_dict, excel_dict, threshold)
MatchAt ==
  /\ pc = "match_call"
  /\ \E t \in Thresholds :
       /\ threshold' = t
       /\ matches' = match_descriptions(json_descriptions, excels_descriptions, t)
  /\ pc' = "matched"
  /\ UNCHANGED <<diskVars, excels_descriptions, json_descriptions, exampleVars,
                 loopVars, serviceVars, simVars>>

NextMatch == GiveMappings \/ MatchAt

SpecMatch == InitMatch /\ [][NextMatch]_vars

\* ------------------------------------------------------------------------
\* The similarity metric on its own
\* ------------------------------------------------------------------------

InitSim ==
  /\ pc = "sim_input"
  /\ cells = << >> /\ json_texts = << >> /\ shots_listing = << >>
  /\ Fresh
  /\ sim_a \in SimStrings
  /\ sim_b \in SimStrings
  /\ sim_ab = NoRatio /\ sim_ba = NoRatio

\* SequenceMatcher(None, a, b).ratio() and SequenceMatcher(None, b, a).ratio()
Similarity ==
  /\ pc = "sim_input"
  /\ sim_ab' = ratio(sim_a, sim_b)
  /\ sim_ba' = ratio(sim_b, sim_a)
  /\ pc' = "sim_done"
  /\ UNCHANGED <<diskVars, gatherVars, exampleVars, loopVars, serviceVars, sim_a, sim_b>>

NextSim == Similarity

SpecSim == InitSim /\ [][NextSim]_vars


\* ------------------------------------------------------------------------
\* Properties
\* ------------------------------------------------------------------------

\* The few-shot conversation has been assembled.
Assembled ==
  \/ pc \in {"loop", "compare", "done"}
  \/ pc = "exited" /\ Len(example_excels) = 3

ComparisonCalls == {i \in 1..Len(calls) : calls[i].kind = "comparison"}

ConversionCalls == {i \in 1..Len(calls) : calls[i].kind = "conversion"}

CheckLines == {i \in 1..Len(output) : output[i].tag = "CHECK"}

FewShotRoles == <<"user", "user", "assistant", "user", "assistant", "user", "assistant">>

FewShotTpls == <<"rules", "first_example", "expected_response_1", "second_example",
                 "expected_response_2", "third_example", "expected_response_3">>

\* conv starts with the rules block and the three worked examples, each a
\* request filled with the conversion of example briefing k, then its answer.
StartsWithFewShot(conv) ==
  /\ Len(conv) >= 7
  /\ \A t \in 1..7 : conv[t].role = FewShotRoles[t] /\ conv[t].text.tpl = FewShotTpls[t]
  /\ \A k \in 1..3 :
       /\ Len(conv[2 * k].text.args) = 2
       /\ conv[2 * k].text.args[1].kind = "shot_json_text"
       /\ conv[2 * k].text.args[2] = Response(k)

\* C1: every conversation sent for comparison is the 7 few-shot turns plus
\* exactly one real-request turn (8 turns, the last a user turn), and the
\* shared few-shot conversation still has 7 turns after every comparison.
C1_EightTurnsPerComparison ==
  /\ \A i \in ComparisonCalls :
       /\ Len(calls[i].messages) = 8
       /\ calls[i].messages[8].role = "user"
       /\ calls[i].messages[8].text.tpl = "new_request"
  /\ Assembled => Len(claude_prompt) = 7

\* C2: the assembled conversation has exactly 7 turns with roles user, user,
\* assistant, user, assistant, user, assistant: the rules block, then the
\* request and expected response of examples 1, 2, 3 in that order; every
\* conversation sent for comparison starts with these 7 turns.
C2_FewShotShape ==
  /\ (Assembled /\ ComparisonCalls = {}) => Len(claude_prompt) = 7
  /\ Assembled => StartsWithFewShot(claude_prompt)
  /\ \A i \in ComparisonCalls :
       /\ StartsWithFewShot(calls[i].messages)
       /\ \A t \in 8..Len(calls[i].messages) : calls[i].messages[t].text.tpl = "new_request"

\* A comparison has been sent and it began with the 7 few-shot turns.
C2_Witness ==
  /\ pc = "done"
  /\ ComparisonCalls # {}
  /\ StartsWithFewShot(claude_prompt)

C4_SentinelNeverMatched ==
  \A m \in matches : m[3] # Sentinel /\ m[4] # Sentinel

\* C5: a briefing whose designated cell is absent or not a string gets the
\* sentinel as its description, and the extraction does not raise.
C5_BadCellBecomesSentinel ==
  /\ pc # "raised_in_briefings"
  /\ \A f \in DOMAIN excels_descriptions :
       cells[f].kind # "str" => excels_descriptions[f] = Sentinel

\* C6: a failed completion-service call is the last call of the run: the
\* error line naming the model is the last line printed, the run has exited,
\* and nothing is called, retried or reported after it.
C6_FailFast ==
  /\ \A i \in 1..Len(calls) :
       ~calls[i].ok =>
         /\ i = Len(calls)
         /\ pc = "exited"
         /\ Len(output) > 0
         /\ output[Len(output)].tag = "ERROR"
         /\ output[Len(output)].model = model_id
  /\ pc = "exited" => Len(calls) > 0 /\ ~calls[Len(calls)].ok

\* A comparison failed while a matched pair was still waiting.
C6_Witness ==
  /\ pc = "exited"
  /\ calls[Len(calls)].kind = "comparison"
  /\ remaining # {}
  /\ CheckLines = {}

\* C7 (as stated): similarity(a, b) = similarity(b, a) for all strings.
C7_Symmetric ==
  pc = "sim_done" => sim_ab = sim_ba

\* C7 (amended): both orders share the denominator len(a) + len(b) and lie
\* in [0, 1], and one is 1.0 exactly when the other is, which is exactly
\* when the strings are identical; below 1.0 the two orders may differ.
C7_SymmetricAtOne ==
  pc = "sim_done" =>
    /\ sim_ab.den = sim_ba.den
    /\ 0 <= sim_ab.num /\ sim_ab.num <= sim_ab.den
    /\ 0 <= sim_ba.num /\ sim_ba.num <= sim_ba.den
    /\ (sim_ab.num = sim_ab.den) <=> (sim_ba.num = sim_ba.den)
    /\ (sim_ab.num = sim_ab.den) <=> (sim_a = sim_b)

\* Two different strings whose similarity depends on the order.
C7_Witness ==
  /\ pc = "sim_done"
  /\ sim_a # sim_b
  /\ sim_ab # sim_ba

\* C8: the assembled few-shot turns are the same whatever order the
\* examples directory lists its .json files in.
C8_ListingOrderIrrelevant ==
  Assembled =>
    \A l \in Orderings({shots_listing[i] : i \in 1..Len(shots_listing)}) :
      BuildPrompt([i \in 1..Len(l) |-> ShotJsonText(l[i])], example_excels, 3)
        = SubSeq(claude_prompt, 1, 7)

\* C9: calls 1..3 convert example briefings 1, 2, 3, before the assembly
\* and before any comparison; after them the calls alternate: the conversion
\* of a matched pair's briefing, then the comparison of that same pair; no
\* pair is compared twice; a completed run with k matched pairs has issued
\* 3 + 2k calls and reported each pair once.
C9_CallOrder ==
  /\ \A i \in 1..Len(calls) :
       /\ i <= 3 =>
            /\ calls[i].kind = "conversion"
            /\ calls[i].messages[1].text.args[1] = ShotBriefingText(i)
       /\ (i > 3 /\ (i - 3) % 2 = 1) =>
            /\ calls[i].kind = "conversion"
            /\ \E m \in matches : calls[i].messages[1].text.args[1] = BriefingText(m[2])
       /\ (i > 3 /\ (i - 3) % 2 = 0) =>
            /\ calls[i].kind = "comparison"
            /\ calls[i - 1].ok
            /\ LET last == calls[i].messages[Len(calls[i].messages)]
               IN /\ last.text.args[1] = Response(i - 1)
                  /\ \E m \in matches :
                       /\ last.text.args[2] = JsonText(m[1])
                       /\ calls[i - 1].messages[1].text.args[1] = BriefingText(m[2])
  /\ (claude_prompt # << >> \/ ComparisonCalls # {}) =>
       /\ Len(calls) >= 3
       /\ \A i \in 1..3 : calls[i].ok
  /\ \A i, j \in CheckLines :
       (output[i].json = output[j].json /\ output[i].excel = output[j].excel) => i = j
  /\ Cardinality(ComparisonCalls) <= Cardinality(matches)
  /\ pc = "done" =>
       /\ Len(calls) = 3 + 2 * Cardinality(matches)
       /\ Cardinality(ComparisonCalls) = Cardinality(matches)
       /\ {<<output[i].json, output[i].excel>> : i \in CheckLines}
            = {<<m[1], m[2]>> : m \in matches}

\* A run that completed with two matched pairs; it issued 7 calls.
C9_Witness ==
  /\ pc = "done"
  /\ Cardinality(matches) = 2
  /\ Len(calls) = 7

=============================================================================
